---- MODULE Spec2Model ----
(***************************************************************************)
(* redback/getdata.py: acquisition and normalisation of Swift GRB data and *)
(* of open-catalog transients.  The filesystem is the only state shared by *)
(* the invocations; every action is one call of a module-level function.   *)
(***************************************************************************)
EXTENDS Integers, Sequences, FiniteSets, TLC

VARIABLES fs, dirs, last, pipeline, scan, race
vars == <<fs, dirs, last, pipeline, scan, race>>

(***************************************************************************)
(* Text.  A file is a sequence of lines; a line of a delimited file is a   *)
(* sequence of tokens (numbers, words, separators).                        *)
(***************************************************************************)
Num(n) == [k |-> "num", n |-> n, s |-> ""]
Str(s) == [k |-> "str", n |-> 0, s |-> s]
Sep(s) == [k |-> "sep", n |-> 0, s |-> s]

RECURSIVE Join(_, _)
\* sep.join(fields): the fields' tokens with the separator between them
Join(fields, sep) ==
  IF Len(fields) = 0 THEN <<>>
  ELSE IF Len(fields) = 1 THEN fields[1]
  ELSE fields[1] \o <<Sep(sep)>> \o Join(Tail(fields), sep)

RECURSIVE SplitFrom(_, _, _, _)
SplitFrom(line, sep, i, cur) ==
  IF i > Len(line) THEN <<cur>>
  ELSE IF line[i] = Sep(sep) THEN <<cur>> \o SplitFrom(line, sep, i + 1, <<>>)
  ELSE SplitFrom(line, sep, i + 1, Append(cur, line[i]))

\* line.split(sep): the fields of a line, cut at every occurrence of sep
Split(line, sep) == SplitFrom(line, sep, 1, <<>>)

(***************************************************************************)
(* The world one invocation runs in: the filesystem and the effects the    *)
(* invocation has had so far.                                              *)
(***************************************************************************)
World(f, d) ==
  [fs |-> f, dirs |-> d, net |-> 0, sess |-> 0, quit |-> 0,
   writes |-> {}, log |-> {}, seen |-> "none", fault |-> "none", nodir |-> {}]

NoneVal == [kind |-> "None"]
TupleVal(t) == [kind |-> "tuple", items |-> t]
FrameVal(df) == [kind |-> "DataFrame", cols |-> df.cols, rows |-> df.rows]

Return(w, v) == [w |-> w, exc |-> "none", ret |-> v]
Raise(w, e) == [w |-> w, exc |-> e, ret |-> NoneVal]

IsFile(w, p) == p \in DOMAIN w.fs
\* a directory known to exist holds path p
InDir(w, p) == \E d \in w.dirs : Len(d) < Len(p) /\ SubSeq(p, 1, Len(d)) = d
\* nodir collects the paths written while no directory known to exist held them
WriteFile(w, p, c) ==
  [w EXCEPT !.fs = [q \in DOMAIN w.fs \cup {p} |-> IF q = p THEN c ELSE w.fs[q]],
            !.writes = @ \cup {p},
            !.nodir = IF InDir(w, p) THEN @ ELSE @ \cup {p}]
\* check_directory_exists_and_if_not_mkdir that creates nothing
Mkdir_skipped(w, d) == w
Mkdir(w, d) == [w EXCEPT !.dirs = @ \cup {d}]
Warn(w, msg) == [w EXCEPT !.log = @ \cup {msg}]
NetCall(w) == [w EXCEPT !.net = @ + 1]
\* requests.get(url): resp is "data", "marker" (the page that says there is no
\* data) or "unreachable" (the request raises)
RequestsGet(w, resp) == [NetCall(w) EXCEPT !.seen = resp]
\* a step of a browser session, or a download, raised
Fault(w, step) == [w EXCEPT !.fault = step]

(***************************************************************************)
(* Path resolvers                                                          *)
(***************************************************************************)
\* the list of allowed bin sizes without its last entry
SWIFT_PROMPT_BIN_SIZES_short == {"1s", "2ms", "8ms", "16ms", "64ms"}

SWIFT_PROMPT_BIN_SIZES == {"1s", "2ms", "8ms", "16ms", "64ms", "256ms"}

\* afterglow_directory_structure naming the files after whether the directory
\* was there before the call
afterglow_directory_structure_by_existence(w, grb, use_default_directory, data_mode, instrument) ==
  LET base == IF use_default_directory
              THEN <<"redback/", "../data/GRBData/GRB", grb, "/afterglow/">>
              ELSE <<"GRBData/GRB", grb, "/afterglow/">>
      grb_dir == base \o <<data_mode, "/">>
      rawfile_path == grb_dir \o <<"GRB", IF grb_dir \in w.dirs THEN grb ELSE "new">>
  IN [w |-> Warn(Mkdir(w, grb_dir),
                 IF instrument = "xrt" THEN "only XRT" ELSE "BAT and XRT"),
      dir |-> grb_dir,
      raw |-> rawfile_path \o
              <<IF instrument = "xrt" THEN "_xrt_rawSwiftData.csv" ELSE "_rawSwiftData.csv">>,
      full |-> rawfile_path \o <<IF instrument = "xrt" THEN "_xrt_csv" ELSE ".csv">>]

afterglow_directory_structure(w, grb, use_default_directory, data_mode, instrument) ==
  LET base == IF use_default_directory
              THEN <<"redback/", "../data/GRBData/GRB", grb, "/afterglow/">>
              ELSE <<"GRBData/GRB", grb, "/afterglow/">>
      grb_dir == base \o <<data_mode, "/">>
      rawfile_path == grb_dir \o <<"GRB", grb>>
  IN [w |-> Warn(Mkdir(w, grb_dir),
                 IF instrument = "xrt" THEN "only XRT" ELSE "BAT and XRT"),
      dir |-> grb_dir,
      raw |-> rawfile_path \o
              <<IF instrument = "xrt" THEN "_xrt_rawSwiftData.csv" ELSE "_rawSwiftData.csv">>,
      full |-> rawfile_path \o <<IF instrument = "xrt" THEN "_xrt_csv" ELSE ".csv">>]

PromptDir(grb, use_default_directory) ==
  (IF use_default_directory
   THEN <<"redback/", "../data/GRBData/GRB", grb, "/">>
   ELSE <<"GRBData/GRB", grb, "/">>) \o <<"prompt/">>

\* exc = "ValueError" when the bin size is not allowed; nothing is created then
prompt_directory_structure(w, grb, use_default_directory, bin_size) ==
  IF bin_size \notin SWIFT_PROMPT_BIN_SIZES
  THEN [w |-> w, exc |-> "ValueError", dir |-> <<>>, raw |-> <<>>, full |-> <<>>]
  ELSE LET grb_dir == PromptDir(grb, use_default_directory)
       IN [w |-> Mkdir(w, grb_dir), exc |-> "none", dir |-> grb_dir,
           raw |-> grb_dir \o <<bin_size, "_lc_ascii.dat">>,
           full |-> grb_dir \o <<bin_size, "_lc.csv">>]

transient_directory_structure(transient, use_default_directory, transient_type) ==
  LET open_transient_dir ==
        IF use_default_directory
        THEN <<"redback/", "../data/", transient_type, "Data/", transient, "/">>
        ELSE <<transient_type, "/", transient, "/">>
  IN [dir |-> open_transient_dir,
      raw |-> open_transient_dir \o <<transient, "_rawdata.csv">>,
      full |-> open_transient_dir \o <<transient, "_data.csv">>]

(***************************************************************************)
(* Sectioned text (Swift integrated flux).  A text line is the pieces      *)
(* written to it and whether a newline ends it; only the last line of a    *)
(* file can lack the newline.  A piece records the first character of the  *)
(* text and the label found at column 2.                                   *)
(***************************************************************************)
Piece(head, tag, id) == [head |-> head, tag |-> tag, id |-> id]
TextLine(txt, nl) == [txt |-> txt, nl |-> nl]

\* line[0]: the first character of a line as iterated from a file
FirstChar(line) == IF line.txt = <<>> THEN "\n" ELSE line.txt[1].head
\* line[2:13] / line[2:11]: the label at column 2
LabelAt2(line) == IF line.txt = <<>> THEN "" ELSE line.txt[1].tag

Digits == {"0", "1", "2", "3", "4", "5", "6", "7", "8", "9"}
\* int(line[0]) succeeds exactly on a digit
IntParses(c) == c \in Digits

ScanInit ==
  [xrtpcflag |-> 0, batflag |-> 0, xrtwtflag |-> 0,
   xrtpc |-> <<>>, bat |-> <<>>, xrtwt |-> <<>>]

\* ScanStep whose batSNR4flux branch leaves xrtpcflag as it was
ScanStep_keeps_xrtpc(st, line) ==
  LET fl == IF FirstChar(line) = "!"
            THEN IF LabelAt2(line) = "batSNR4flux"
                 THEN [st EXCEPT !.batflag = 1, !.xrtwtflag = 0]
                 ELSE IF LabelAt2(line) = "xrtpcflux"
                 THEN [st EXCEPT !.xrtpcflag = 1, !.batflag = 0, !.xrtwtflag = 0]
                 ELSE IF LabelAt2(line) = "xrtwtflux"
                 THEN [st EXCEPT !.xrtpcflag = 0, !.batflag = 0, !.xrtwtflag = 1]
                 ELSE [st EXCEPT !.xrtpcflag = 0, !.batflag = 0, !.xrtwtflag = 0]
            ELSE st
  IN [fl EXCEPT
        !.xrtpc = IF fl.xrtpcflag = 1 THEN Append(@, line) ELSE @,
        !.bat = IF fl.batflag = 1 THEN Append(@, line) ELSE @,
        !.xrtwt = IF fl.xrtwtflag = 1 THEN Append(@, line) ELSE @]

\* one iteration of the loop over the raw file's lines
ScanStep(st, line) ==
  LET fl == IF FirstChar(line) = "!"
            THEN IF LabelAt2(line) = "batSNR4flux"
                 THEN [st EXCEPT !.xrtpcflag = 0, !.batflag = 1, !.xrtwtflag = 0]
                 ELSE IF LabelAt2(line) = "xrtpcflux"
                 THEN [st EXCEPT !.xrtpcflag = 1, !.batflag = 0, !.xrtwtflag = 0]
                 ELSE IF LabelAt2(line) = "xrtwtflux"
                 THEN [st EXCEPT !.xrtpcflag = 0, !.batflag = 0, !.xrtwtflag = 1]
                 ELSE [st EXCEPT !.xrtpcflag = 0, !.batflag = 0, !.xrtwtflag = 0]
            ELSE st
  IN [fl EXCEPT
        !.xrtpc = IF fl.xrtpcflag = 1 THEN Append(@, line) ELSE @,
        !.bat = IF fl.batflag = 1 THEN Append(@, line) ELSE @,
        !.xrtwt = IF fl.xrtwtflag = 1 THEN Append(@, line) ELSE @]

RECURSIVE ScanFrom(_, _, _)
ScanFrom(st, lines, i) ==
  IF i > Len(lines) THEN st ELSE ScanFrom(ScanStep(st, lines[i]), lines, i + 1)

\* out.write(s): s goes to the line being written; a newline in s ends it
OutWrite(out, txt, nl) ==
  LET n == Len(out)
      open == n > 0 /\ ~out[n].nl
  IN IF open
     THEN [out EXCEPT ![n] = TextLine(out[n].txt \o txt, nl)]
     ELSE Append(out, TextLine(txt, nl))

RECURSIVE WriteValid(_, _, _)
\* the loop writing the lines of a section whose first character parses
WriteValid(out, buf, i) ==
  IF i > Len(buf) THEN out
  ELSE WriteValid(IF IntParses(FirstChar(buf[i]))
                  THEN OutWrite(out, buf[i].txt, buf[i].nl)
                  ELSE out,
                  buf, i + 1)

BatHeader == <<Piece("#", "# BAT - batSNR4flux", 0)>>
XrtwtHeader == <<Piece("#", "# XRT - xrtwtflux", 0)>>
XrtpcHeader == <<Piece("#", "# XRT - xrtpcflux", 0)>>

\* the text written to fullfile from the three section buffers
FluxOutput(st) ==
  LET o1 == OutWrite(<<>>, BatHeader, TRUE)
      o2 == WriteValid(o1, st.bat, 1)
      o3 == OutWrite(o2, <<>>, TRUE)
      o4 == OutWrite(o3, XrtwtHeader, TRUE)
      o5 == WriteValid(o4, st.xrtwt, 1)
      o6 == OutWrite(o5, <<>>, TRUE)
      o7 == OutWrite(o6, XrtpcHeader, TRUE)
  IN WriteValid(o7, st.xrtpc, 1)

\* sort_integrated_flux_data opening fullfile before it reads rawfile
sort_integrated_flux_data_leaves_empty(w, rawfile, fullfile, io) ==
  IF io = "unreadable" \/ ~IsFile(w, rawfile)
  THEN Return(WriteFile(Warn(Fault(w, "open"), "error opening the file"), fullfile, <<>>),
              NoneVal)
  ELSE Return(WriteFile(w, fullfile, FluxOutput(ScanFrom(ScanInit, w.fs[rawfile], 1))),
              NoneVal)

\* io = "unreadable": open(rawfile) raises IOError, caught; nothing is written
sort_integrated_flux_data(w, rawfile, fullfile, io) ==
  IF io = "unreadable" \/ ~IsFile(w, rawfile)
  THEN Return(Warn(Fault(w, "open"), "error opening the file"), NoneVal)
  ELSE Return(WriteFile(w, fullfile, FluxOutput(ScanFrom(ScanInit, w.fs[rawfile], 1))),
              NoneVal)

sort_fluxdensity_data(w, rawfile, fullfile) == Return(w, NoneVal)

(***************************************************************************)
(* Browser sessions.  sfail names the step of the session that raises;     *)
(* controls tells whether the optional selectors are on the page.          *)
(***************************************************************************)
SessionFailures == {"none", "driver", "get", "select", "click", "location", "retrieve"}

fetch_driver(w) == [w EXCEPT !.sess = @ + 1]
DriverQuit(w) == [w EXCEPT !.quit = @ + 1]
\* urllib.request.urlretrieve(url, path)
UrlRetrieve(w, path, payload) == WriteFile(NetCall(w), path, payload)

process_fluxdensity_data(w, grb, rawfile, env) ==
  IF env.sfail = "driver" THEN Raise(Fault(w, "driver"), "WebDriverException")
  ELSE LET w1 == fetch_driver(w) IN
    IF env.sfail = "get" THEN Raise(Fault(w1, "get"), "WebDriverException")
    ELSE IF env.sfail = "select" \/ ~env.controls
    THEN Return(Warn(Fault(w1, "select"), "cannot load the website"), NoneVal)
    ELSE IF env.sfail \in {"click", "location"}
    THEN Return(Warn(Fault(w1, env.sfail), "cannot load the website"), NoneVal)
    ELSE LET w2 == DriverQuit(w1) IN
      IF env.sfail = "retrieve"
      THEN Return(Warn(Fault(NetCall(w2), "retrieve"), "cannot load the website"), NoneVal)
      ELSE Return(UrlRetrieve(w2, rawfile, env.payload), NoneVal)

process_integrated_flux_data(w, grb, rawfile, env) ==
  IF env.sfail = "driver" THEN Raise(Fault(w, "driver"), "WebDriverException")
  ELSE LET w1 == fetch_driver(w) IN
    IF env.sfail = "get" THEN Raise(Fault(w1, "get"), "WebDriverException")
    ELSE IF env.controls /\ env.sfail = "select"
    THEN Raise(Fault(w1, "select"), "WebDriverException")
    ELSE IF env.sfail \in {"click", "location"}
    THEN Raise(Fault(w1, env.sfail), "WebDriverException")
    ELSE LET w2 == DriverQuit(w1) IN
      IF env.sfail = "retrieve" THEN Raise(Fault(NetCall(w2), "retrieve"), "URLError")
      ELSE Return(UrlRetrieve(w2, rawfile, env.payload), NoneVal)

(***************************************************************************)
(* Swift afterglow pipeline                                                *)
(***************************************************************************)
\* collect_swift_data testing data_mode only after the request to the website
collect_swift_data_validates_late(w, grb, use_default_directory, data_mode, env) ==
  LET d == afterglow_directory_structure(w, grb, use_default_directory, data_mode, "BAT+XRT") IN
    IF IsFile(d.w, d.raw)
    THEN Return(Warn(d.w, "raw data file already exists"), TupleVal(<<d.dir, d.raw, d.full>>))
    ELSE LET w1 == RequestsGet(d.w, env.resp) IN
      IF env.resp = "unreachable" THEN Raise(w1, "ConnectionError")
      ELSE IF env.resp = "marker"
      THEN Raise(Warn(w1, "problem loading the website"), "WebsiteExist")
      ELSE IF data_mode \notin {"flux", "flux_density"} THEN Raise(w1, "ValueError")
      ELSE LET r == IF data_mode = "flux"
                    THEN process_integrated_flux_data(w1, grb, d.raw, env)
                    ELSE process_fluxdensity_data(w1, grb, d.raw, env)
           IN IF r.exc # "none" THEN r
              ELSE Return(r.w, TupleVal(<<d.raw, d.full>>))

collect_swift_data(w, grb, use_default_directory, data_mode, env) ==
  IF data_mode \notin {"flux", "flux_density"} THEN Raise(w, "ValueError")
  ELSE LET d == afterglow_directory_structure(w, grb, use_default_directory, data_mode, "BAT+XRT") IN
    IF IsFile(d.w, d.raw)
    THEN Return(Warn(d.w, "raw data file already exists"), TupleVal(<<d.dir, d.raw, d.full>>))
    ELSE LET w1 == RequestsGet(d.w, env.resp) IN
      IF env.resp = "unreachable" THEN Raise(w1, "ConnectionError")
      ELSE IF env.resp = "marker"
      THEN Raise(Warn(w1, "problem loading the website"), "WebsiteExist")
      ELSE LET r == IF data_mode = "flux"
                    THEN process_integrated_flux_data(w1, grb, d.raw, env)
                    ELSE process_fluxdensity_data(w1, grb, d.raw, env)
           IN IF r.exc # "none" THEN r
              ELSE Return(r.w, TupleVal(<<d.raw, d.full>>))

\* sort_swift_data with the two existence checks in the other order
sort_swift_data_raw_first(w, rawfile, fullfile, data_mode, io) ==
  IF ~IsFile(w, rawfile)
  THEN Raise(Warn(w, "raw data does not exist"), "DataExists")
  ELSE IF IsFile(w, fullfile)
  THEN Return(Warn(w, "processed data file already exists"), NoneVal)
  ELSE IF data_mode = "flux" THEN sort_integrated_flux_data(w, rawfile, fullfile, io)
  ELSE IF data_mode = "flux_density" THEN sort_fluxdensity_data(w, rawfile, fullfile)
  ELSE Return(w, NoneVal)

sort_swift_data(w, rawfile, fullfile, data_mode, io) ==
  IF IsFile(w, fullfile)
  THEN Return(Warn(w, "processed data file already exists"), NoneVal)
  ELSE IF ~IsFile(w, rawfile)
  THEN Raise(Warn(w, "raw data does not exist"), "DataExists")
  ELSE IF data_mode = "flux" THEN sort_integrated_flux_data(w, rawfile, fullfile, io)
  ELSE IF data_mode = "flux_density" THEN sort_fluxdensity_data(w, rawfile, fullfile)
  ELSE Return(w, NoneVal)

\* rawfile, fullfile = collect_swift_data(...) unpacks exactly two values
get_afterglow_data_from_swift(w, grb, data_mode, use_default_directory, env) ==
  LET c == collect_swift_data(w, grb, use_default_directory, data_mode, env) IN
    IF c.exc # "none" THEN c
    ELSE IF Len(c.ret.items) # 2 THEN Raise(c.w, "ValueError")
    ELSE LET s == sort_swift_data(c.w, c.ret.items[1], c.ret.items[2], data_mode, env.io)
         IN IF s.exc # "none" THEN s ELSE Return(s.w, NoneVal)

(***************************************************************************)
(* Delimited tables.  A cell of a table is the token sequence of its text. *)
(***************************************************************************)
Cell(tok) == <<tok>>

\* DataFrame.to_csv(path, sep, index=False): the header line, then the rows
ToCsv(df, sep) ==
  <<Join(df.cols, sep)>> \o [i \in 1..Len(df.rows) |-> Join(df.rows[i], sep)]

\* pd.read_csv(path, sep): the first line names the columns
ReadCsv(text, sep) ==
  [cols |-> Split(text[1], sep),
   rows |-> [i \in 1..(Len(text) - 1) |-> Split(text[i + 1], sep)]]

RECURSIVE ColumnIndex(_, _, _)
ColumnIndex(cols, name, i) ==
  IF i > Len(cols) THEN 0
  ELSE IF cols[i] = name THEN i
  ELSE ColumnIndex(cols, name, i + 1)

\* df[name]: 0 when the frame has no such column (KeyError)
Col(df, name) == ColumnIndex(df.cols, Cell(Str(name)), 1)

RECURSIVE SelectRows(_, _, _)
\* df[mask]: the rows whose index is in keep, in order
SelectRows(rows, keep, i) ==
  IF i > Len(rows) THEN <<>>
  ELSE (IF i \in keep THEN <<rows[i]>> ELSE <<>>) \o SelectRows(rows, keep, i + 1)

RECURSIVE StripComment(_, _, _)
\* the part of a line before the first comment marker
StripComment(line, comments, i) ==
  IF i > Len(line) THEN line
  ELSE IF line[i].k = "str" /\ line[i].s \in comments THEN SubSeq(line, 1, i - 1)
  ELSE StripComment(line, comments, i + 1)

\* line.split(): fields between runs of blanks
SplitWs(line) ==
  LET f == Split(line, " ")
  IN SelectRows(f, {i \in 1..Len(f) : f[i] # <<>>}, 1)

RECURSIVE LoadRows(_, _, _)
LoadRows(text, comments, i) ==
  IF i > Len(text) THEN <<>>
  ELSE LET f == SplitWs(StripComment(text[i], comments, 1))
       IN (IF f = <<>> THEN <<>> ELSE <<f>>) \o LoadRows(text, comments, i + 1)

IsNumber(cell) == Len(cell) = 1 /\ cell[1].k = "num"

\* np.loadtxt(path, comments): ok is FALSE when a field is no number or the rows
\* are ragged (ValueError); ndim is 1 for fewer than two rows, which numpy squeezes
np_loadtxt(text, comments) ==
  LET rows == LoadRows(text, comments, 1)
      numeric == \A i \in 1..Len(rows) : \A j \in 1..Len(rows[i]) : IsNumber(rows[i][j])
      even == \A i \in 1..Len(rows) : Len(rows[i]) = Len(rows[1])
  IN [ok |-> numeric /\ even, rows |-> rows,
      ndim |-> IF Len(rows) >= 2 THEN 2 ELSE 1,
      ncols |-> IF Len(rows) = 0 THEN 0 ELSE Len(rows[1])]

(***************************************************************************)
(* Swift XRT pipeline                                                      *)
(***************************************************************************)
XrtColumns ==
  <<Cell(Str("time")), Cell(Str("timepos")), Cell(Str("timeneg")),
    Cell(Str("flux")), Cell(Str("fluxpos")), Cell(Str("fluxneg"))>>

\* exc: ValueError from loadtxt, IndexError from data[:, k] on a squeezed or
\* narrow array
process_xrt_data(text) ==
  LET data == np_loadtxt(text, {"!", "READ", "NO"}) IN
    IF ~data.ok THEN [exc |-> "ValueError", df |-> [cols |-> <<>>, rows |-> <<>>]]
    ELSE IF data.ndim # 2 \/ data.ncols < 6
    THEN [exc |-> "IndexError", df |-> [cols |-> <<>>, rows |-> <<>>]]
    ELSE LET rows == [i \in 1..Len(data.rows) |-> SubSeq(data.rows[i], 1, 6)]
         IN [exc |-> "none",
             df |-> [cols |-> XrtColumns,
                     rows |-> SelectRows(rows,
                                {i \in 1..Len(rows) : rows[i][5] # Cell(Num(0))}, 1)]]

\* get_xrt_data_from_swift downloading before it looks for the marker
get_xrt_data_from_swift_download_first(w, grb, data_mode, use_default_directory, env) ==
  LET d == afterglow_directory_structure(w, grb, use_default_directory, data_mode, "xrt")
      w1 == RequestsGet(d.w, env.resp)
  IN IF env.resp = "unreachable" THEN Raise(w1, "ConnectionError")
     ELSE IF env.sfail = "retrieve" THEN Raise(Fault(NetCall(w1), "retrieve"), "URLError")
     ELSE LET w2 == UrlRetrieve(w1, d.raw, env.payload)
              p == process_xrt_data(w2.fs[d.raw])
          IN IF env.resp = "marker"
             THEN Raise(Warn(w2, "problem loading the website"), "WebsiteExist")
             ELSE IF p.exc # "none" THEN Raise(w2, p.exc)
             ELSE Return(WriteFile(w2, d.full, ToCsv(p.df, ",")), NoneVal)

get_xrt_data_from_swift(w, grb, data_mode, use_default_directory, env) ==
  LET d == afterglow_directory_structure(w, grb, use_default_directory, data_mode, "xrt")
      w1 == RequestsGet(d.w, env.resp)
  IN IF env.resp = "unreachable" THEN Raise(w1, "ConnectionError")
     ELSE IF env.resp = "marker"
     THEN Raise(Warn(w1, "problem loading the website"), "WebsiteExist")
     ELSE IF env.sfail = "retrieve" THEN Raise(Fault(NetCall(w1), "retrieve"), "URLError")
     ELSE LET w2 == UrlRetrieve(w1, d.raw, env.payload)
              p == process_xrt_data(w2.fs[d.raw])
          IN IF p.exc # "none" THEN Raise(w2, p.exc)
             ELSE Return(WriteFile(w2, d.full, ToCsv(p.df, ",")), NoneVal)

(***************************************************************************)
(* Swift prompt pipeline                                                   *)
(***************************************************************************)
PromptColumns ==
  <<Cell(Str("Time [s]")),
    Cell(Str("flux_15_25 [counts/s/det]")), Cell(Str("flux_15_25_err [counts/s/det]")),
    Cell(Str("flux_25_50 [counts/s/det]")), Cell(Str("flux_25_50_err [counts/s/det]")),
    Cell(Str("flux_50_100 [counts/s/det]")), Cell(Str("flux_50_100_err [counts/s/det]")),
    Cell(Str("flux_100_350 [counts/s/det]")), Cell(Str("flux_100_350_err [counts/s/det]")),
    Cell(Str("flux_15_350 [counts/s/det]")), Cell(Str("flux_15_350_err [counts/s/det]"))>>

collect_swift_prompt_data(w, grb, use_default_directory, bin_size, env) ==
  LET d == prompt_directory_structure(w, grb, use_default_directory, bin_size) IN
    IF d.exc # "none" THEN Raise(d.w, d.exc)
    ELSE IF IsFile(d.w, d.raw)
    THEN Return(Warn(d.w, "raw data file already exists"), NoneVal)
    ELSE IF env.sfail = "driver" THEN Raise(Fault(d.w, "driver"), "WebDriverException")
    ELSE LET w1 == fetch_driver(d.w) IN
      IF env.sfail = "get" THEN Raise(Fault(w1, "get"), "WebDriverException")
      ELSE IF env.sfail \in {"select", "click", "location"}
      THEN Return(Warn(Fault(w1, env.sfail), "cannot load the website"), NoneVal)
      ELSE IF env.sfail = "retrieve"
      THEN Return(Warn(Fault(NetCall(w1), "retrieve"), "cannot load the website"), NoneVal)
      ELSE Return(DriverQuit(UrlRetrieve(w1, d.raw, env.payload)), NoneVal)

\* the separator read_csv is given when the processed file is loaded back
PromptReadSep == "\t"

sort_swift_prompt_data(w, grb, use_default_directory) ==
  LET d == prompt_directory_structure(w, grb, use_default_directory, "2ms") IN
    IF d.exc # "none" THEN Raise(d.w, d.exc)
    ELSE IF IsFile(d.w, d.full)
    THEN Return(Warn(d.w, "processed data file already exists"),
                FrameVal(ReadCsv(d.w.fs[d.full], PromptReadSep)))
    ELSE IF ~IsFile(d.w, d.raw)
    THEN Raise(Warn(d.w, "raw data does not exist"), "DataExists")
    ELSE LET data == np_loadtxt(d.w.fs[d.raw], {"#"}) IN
      IF ~data.ok \/ data.ndim # 2 \/ data.ncols # Len(PromptColumns)
      THEN Raise(d.w, "ValueError")
      ELSE LET df == [cols |-> PromptColumns, rows |-> data.rows]
           IN Return(WriteFile(d.w, d.full, ToCsv(df, ",")), FrameVal(df))

get_prompt_data_from_swift(w, grb, bin_size, use_default_directory, env) ==
  LET c == collect_swift_prompt_data(w, grb, use_default_directory, bin_size, env) IN
    IF c.exc # "none" THEN c
    ELSE sort_swift_prompt_data(c.w, grb, use_default_directory)

(***************************************************************************)
(* Open transient catalog pipeline                                         *)
(***************************************************************************)
OpenCatalogTypes == {"kilonova", "supernova", "tidal_disruption_event"}

\* dl names the urlretrieve that raises: "raw", "meta" or none ("ok")
collect_open_catalog_data(w, transient, use_default_directory, transient_type, env) ==
  LET d == transient_directory_structure(transient, use_default_directory, transient_type)
      w0 == Mkdir(w, d.dir)
  IN IF IsFile(w0, d.raw)
     THEN Return(Warn(w0, "raw data file already exists"), NoneVal)
     ELSE IF transient_type \notin OpenCatalogTypes
     THEN Raise(Warn(w0, "no open access data"), "WebsiteExist")
     ELSE LET w1 == RequestsGet(w0, env.resp) IN
       IF env.resp = "unreachable" THEN Raise(w1, "ConnectionError")
       ELSE IF env.resp = "marker"
       THEN Raise(Warn(w1, "transient does not exist in the catalog"), "WebsiteExist")
       ELSE IF IsFile(w1, d.full)
       THEN Return(Warn(w1, "processed data file already exists"), NoneVal)
       ELSE IF env.dl = "raw" THEN Raise(Fault(NetCall(w1), "retrieve"), "URLError")
       ELSE LET w2 == UrlRetrieve(w1, d.raw, env.payload) IN
         IF env.dl = "meta" THEN Raise(Fault(NetCall(w2), "retrieve"), "URLError")
         ELSE Return(UrlRetrieve(w2, d.dir \o <<"metadata.csv">>, env.meta), NoneVal)

\* utils.calc_fluxdensity_from_ABmag: the flux density of an AB magnitude
calc_fluxdensity_from_ABmag(mag) == <<Str("fluxdensity_mjy")>> \o mag
\* utils.calc_flux_density_error with reference_flux 3631, system AB
calc_flux_density_error(mag, mag_err) == <<Str("fluxdensity_error")>> \o mag \o mag_err

\* np.isnan of a cell read by read_csv: an empty field reads as NaN
IsNan(cell) == cell = <<>>

\* DaysBetween with the operands of the subtraction exchanged
DaysBetween_reversed(t, t0) == Cell(Num(t0[1].n - t[1].n))

\* Time(...) subtraction converted to days, on MJD values
DaysBetween(t, t0) == Cell(Num(t[1].n - t0[1].n))

\* AddTimeDays adding a column even when the frame has one of that name
AddTimeDays_appends(df, t0) ==
  [cols |-> Append(df.cols, Cell(Str("time (days)"))),
   rows |-> [i \in 1..Len(df.rows) |->
               Append(df.rows[i], DaysBetween(df.rows[i][Col(df, "time")], t0))]]

\* data['time (days)'] = (tt - timeofevent).to(uu.day)
AddTimeDays(df, t0) ==
  LET ti == Col(df, "time")
      ci == Col(df, "time (days)")
  IN IF ci = 0
     THEN [cols |-> Append(df.cols, Cell(Str("time (days)"))),
           rows |-> [i \in 1..Len(df.rows) |->
                       Append(df.rows[i], DaysBetween(df.rows[i][ti], t0))]]
     ELSE [cols |-> df.cols,
           rows |-> [i \in 1..Len(df.rows) |->
                       [df.rows[i] EXCEPT ![ci] = DaysBetween(df.rows[i][ti], t0)]]]

\* references a name bound nowhere
get_t0_from_grb(transient) == [exc |-> "NameError", t0 |-> <<>>]

\* KeepRow without the test for band 'W'
KeepRow_without_W(row, band, system) ==
  /\ row[band] # Cell(Str("C"))
  /\ row[system] = Cell(Str("AB"))

\* the three row filters applied to the raw table
KeepRow(row, band, system) ==
  /\ row[band] # Cell(Str("C"))
  /\ row[band] # Cell(Str("W"))
  /\ row[system] = Cell(Str("AB"))

\* FirstObservationTime taking the last row
FirstObservationTime_last(data, time) == data.rows[Len(data.rows)][time]

\* data['time'].iloc[0]
FirstObservationTime(data, time) == data.rows[1][time]

\* sort_open_access_data once the raw file is known to exist
ProcessOpenData(w, d, transient, transient_type) ==
  LET rawdata == ReadCsv(w.fs[d.raw], ",")
      band == Col(rawdata, "band")
      system == Col(rawdata, "system")
      mag == Col(rawdata, "magnitude")
      emag == Col(rawdata, "e_magnitude")
      time == Col(rawdata, "time")
  IN IF 0 \in {band, system, mag, emag, time} THEN Raise(w, "KeyError")
     ELSE LET kept == SelectRows(rawdata.rows,
                        {i \in 1..Len(rawdata.rows) :
                           KeepRow(rawdata.rows[i], band, system)}, 1)
              data == [cols |-> rawdata.cols \o
                                <<Cell(Str("flux(mjy)")), Cell(Str("flux_error"))>>,
                       rows |-> [i \in 1..Len(kept) |->
                                   kept[i] \o
                                   <<calc_fluxdensity_from_ABmag(kept[i][mag]),
                                     calc_flux_density_error(kept[i][mag], kept[i][emag])>>]]
              mpath == d.dir \o <<"metadata.csv">>
          IN IF ~IsFile(w, mpath) THEN Raise(w, "FileNotFoundError")
             ELSE LET metadata == ReadCsv(w.fs[mpath], ",")
                      tom == Col(metadata, "timeofmerger")
                  IN IF tom = 0 THEN Raise(w, "KeyError")
                     ELSE IF Len(metadata.rows) = 0 THEN Raise(w, "IndexError")
                     ELSE LET timeofevent == metadata.rows[1][tom] IN
                       IF ~IsNan(timeofevent) /\ ~IsNumber(timeofevent)
                       THEN Raise(w, "TypeError")
                       ELSE IF IsNan(timeofevent) /\ transient_type = "kilonova"
                       THEN Raise(Warn(w, "no timeofevent in metadata"),
                                  get_t0_from_grb(transient).exc)
                       ELSE IF IsNan(timeofevent) /\ Len(data.rows) = 0
                       THEN Raise(Warn(w, "run fix_t0_of_transient"), "IndexError")
                       ELSE IF \E i \in 1..Len(data.rows) : ~IsNumber(data.rows[i][time])
                       THEN Raise(w, "ValueError")
                       ELSE LET t0 == IF IsNan(timeofevent)
                                      THEN FirstObservationTime(data, time)
                                      ELSE timeofevent
                                w1 == IF IsNan(timeofevent)
                                      THEN Warn(w, "run fix_t0_of_transient") ELSE w
                                out == AddTimeDays(data, t0)
                            IN Return(WriteFile(w1, d.full, ToCsv(out, ",")),
                                      FrameVal(out))

\* sort_open_access_data that does not look for the processed file
sort_open_access_data_reprocesses(w, transient, use_default_directory, transient_type) ==
  LET d == transient_directory_structure(transient, use_default_directory, transient_type) IN
    IF ~IsFile(w, d.raw)
    THEN Raise(Warn(w, "raw data does not exist"), "DataExists")
    ELSE ProcessOpenData(w, d, transient, transient_type)

sort_open_access_data(w, transient, use_default_directory, transient_type) ==
  LET d == transient_directory_structure(transient, use_default_directory, transient_type) IN
    IF IsFile(w, d.full)
    THEN Return(Warn(w, "processed data already exists"), FrameVal(ReadCsv(w.fs[d.full], ",")))
    ELSE IF ~IsFile(w, d.raw)
    THEN Raise(Warn(w, "raw data does not exist"), "DataExists")
    ELSE ProcessOpenData(w, d, transient, transient_type)

get_open_transient_catalog_data(w, transient, transient_type, use_default_directory, env) ==
  LET c == collect_open_catalog_data(w, transient, use_default_directory, transient_type, env) IN
    IF c.exc # "none" THEN c
    ELSE sort_open_access_data(c.w, transient, use_default_directory, transient_type)

fix_t0_of_transient(w, timeofevent, transient, transient_type, use_default_directory) ==
  LET d == transient_directory_structure(transient, use_default_directory, transient_type) IN
    IF ~IsFile(w, d.full) THEN Raise(w, "FileNotFoundError")
    ELSE LET data == ReadCsv(w.fs[d.full], ",") IN
      IF Col(data, "time") = 0 THEN Raise(w, "KeyError")
      ELSE IF \E i \in 1..Len(data.rows) : ~IsNumber(data.rows[i][Col(data, "time")])
      THEN Raise(w, "ValueError")
      ELSE Return(WriteFile(w, d.full, ToCsv(AddTimeDays(data, Cell(Num(timeofevent))), ",")),
                  NoneVal)

(***************************************************************************)
(* Inputs: the arguments the entry points are called with and what the     *)
(* remote services answer.                                                 *)
(***************************************************************************)
GRB == "170817A"
Transient == "at2017gfo"
UseDefaultDirectory == FALSE

DataModes == {"flux", "flux_density", "luminosity", "counts"}
BinSizes == {"2ms", "1s", "4ms"}
\* the bin sizes prompt_directory_structure itself is called with
BinSizeInputs == {"1s", "2ms", "8ms", "16ms", "64ms", "256ms", "4ms", "1ms", "2s"}
TransientTypes == {"kilonova", "supernova", "galaxy"}
Epochs == {2, 4}

Data(id, nl) == TextLine(<<Piece("1", "", id)>>, nl)
Junk(id) == TextLine(<<Piece("x", "", id)>>, TRUE)
Header(tag) == TextLine(<<Piece("!", tag, 0)>>, TRUE)

FluxPayloads ==
  { <<Junk(1), Header("batSNR4flux"), Data(2, TRUE), Junk(3), Data(4, TRUE),
      Header("xrtwtflux"), Data(5, TRUE), Header("xrtpcflux"), Junk(6)>>,
    <<Header("xrtpcflux"), Data(1, TRUE), Header("batSNR4flux"), Data(2, FALSE)>> }

FluxDensityPayloads == { <<Data(1, TRUE)>> }

Row(cells) == Join(cells, " ")
NumCells(ns) == [i \in 1..Len(ns) |-> Cell(Num(ns[i]))]

\* the data rows of a raw XRT file: time, timepos, timeneg, flux, fluxpos, fluxneg
XrtRowSets ==
  { << <<10, 1, 1, 5, 2, 2>>, <<20, 1, 1, 4, 0, 1>>, <<30, 1, 1, 3, 1, 0>> >>,
    << <<20, 1, 1, 4, 0, 1>>, <<10, 0, 1, 5, 2, 2>> >>,
    << <<10, 1, 1, 5, 2, 2>> >> }

\* a raw XRT file: the rows between the lines loadtxt takes for comments
XrtFile(rows) ==
  << <<Str("READ"), Sep(" "), Str("TERR")>>, <<Str("!"), Sep(" "), Str("WT")>> >>
  \o [i \in 1..Len(rows) |-> Row(NumCells(rows[i]))]
  \o << <<Str("NO"), Sep(" "), Str("NO")>> >>

XrtPayloads == {XrtFile(rows) : rows \in XrtRowSets}

PromptRow(t) == Row([i \in 1..Len(PromptColumns) |-> Cell(Num(t + i))])

MaxPromptRows == 2
PromptPayloads == { [i \in 1..n |-> PromptRow(20 * (i - 1))] : n \in 1..MaxPromptRows }

CsvLine(cells) == Join(cells, ",")
OpenHeader ==
  CsvLine(<<Cell(Str("event")), Cell(Str("time")), Cell(Str("magnitude")),
            Cell(Str("e_magnitude")), Cell(Str("band")), Cell(Str("system"))>>)
OpenRow(t, m, band, system) ==
  CsvLine(<<Cell(Str(Transient)), Cell(Num(t)), Cell(Num(m)), Cell(Num(1)),
            Cell(Str(band)), Cell(Str(system))>>)

OpenPayloads ==
  { <<OpenHeader, OpenRow(4, 16, "C", "AB"), OpenRow(5, 17, "r", "AB"),
      OpenRow(6, 18, "W", "AB"), OpenRow(7, 19, "g", "Vega"), OpenRow(9, 20, "i", "AB")>> }

MetaHeader ==
  CsvLine(<<Cell(Str("event")), Cell(Str("timeofmerger")), Cell(Str("discoverdate")),
            Cell(Str("redshift")), Cell(Str("ra")), Cell(Str("dec")), Cell(Str("host"))>>)
MetaRow(tom) ==
  CsvLine(<<Cell(Str(Transient)), tom, Cell(Str("2017/08/17")), Cell(Num(0)),
            Cell(Num(13)), Cell(Num(-23)), Cell(Str("NGC 4993"))>>)

MetaPayloads == { <<MetaHeader, MetaRow(Cell(Num(3)))>>, <<MetaHeader, MetaRow(<<>>)>> }

Responses == {"data", "marker", "unreachable"}

Env(resp, sfail, controls, payload, io, dl, meta) ==
  [resp |-> resp, sfail |-> sfail, controls |-> controls, payload |-> payload,
   io |-> io, dl |-> dl, meta |-> meta]

NoText == <<>>

\* the answers of the remote side to a fetch that opens a browser session: a
\* field that the run never reads is held at one value
SessionCases(payloads) ==
  { e \in [resp : Responses, sfail : SessionFailures, controls : BOOLEAN,
           payload : payloads, io : {"ok"}, dl : {"ok"}, meta : {NoText}] :
      /\ e.resp # "data" => e.sfail = "none" /\ e.controls
      /\ e.sfail \notin {"none", "select"} => e.controls
      /\ (e.resp # "data" \/ e.sfail # "none") =>
            e.payload = (CHOOSE p \in payloads : TRUE) }

\* the answers to a fetch made of direct downloads
DirectCases(payloads, metas) ==
  { e \in [resp : Responses, sfail : {"none"}, controls : {TRUE}, payload : payloads,
           io : {"ok"}, dl : {"ok", "raw", "meta"}, meta : metas] :
      /\ e.resp # "data" => e.dl = "ok"
      /\ (e.resp # "data" \/ e.dl = "raw") => e.payload = (CHOOSE p \in payloads : TRUE)
      /\ (e.resp # "data" \/ e.dl # "ok") => e.meta = (CHOOSE m \in metas : TRUE) }

(***************************************************************************)
(* State machine: one action per call of a function of the module.  The    *)
(* four pipelines resolve their files under different path templates, so   *)
(* no call of one reads or writes a file of another; a run follows the     *)
(* storage of one pipeline.                                                *)
(***************************************************************************)
Pipelines == {"afterglow", "xrt", "prompt", "open"}

NoFiles == [p \in {} |-> NoText]

\* two invocations of a fetch phase running at once: NoRace when none runs
NoRace == [present |-> FALSE, file |-> <<>>, writer |-> 0,
           proc |-> [i \in {} |-> [pc |-> "done", payload |-> <<>>, pos |-> 0,
                                   saw |-> "absent"]]]

\* the loop of sort_integrated_flux_data: the lines read, how many of them
\* the loop has taken, the flags and buffers; NoScan outside the loop
NoScan == [lines |-> <<>>, pos |-> 0, st |-> ScanInit]

Init ==
  /\ fs = NoFiles
  /\ dirs = {}
  /\ pipeline \in Pipelines
  /\ last = [op |-> "none", arg |-> "", pre |-> {}, exc |-> "none", ret |-> NoneVal,
             net |-> 0, sess |-> 0, quit |-> 0, writes |-> {}, log |-> {},
             seen |-> "none", fault |-> "none", val |-> 0, nodir |-> {}]
  /\ scan = NoScan
  /\ race = NoRace

\* the call op(arg) ran from the current filesystem and ended as r
\* a call op(arg, ...) with result r; val is a numeric argument of the call
InvokeWith(op, arg, val, r) ==
  /\ fs' = r.w.fs
  /\ dirs' = r.w.dirs
  /\ last' = [op |-> op, arg |-> arg, pre |-> DOMAIN fs, exc |-> r.exc, ret |-> r.ret,
              net |-> r.w.net, sess |-> r.w.sess, quit |-> r.w.quit,
              writes |-> r.w.writes, log |-> r.w.log, seen |-> r.w.seen,
              fault |-> r.w.fault, val |-> val, nodir |-> r.w.nodir]
  /\ UNCHANGED <<pipeline, scan, race>>

Invoke(op, arg, r) == InvokeWith(op, arg, 0, r)

Now == World(fs, dirs)

AfterglowPaths(data_mode) ==
  afterglow_directory_structure(Now, GRB, UseDefaultDirectory, data_mode, "BAT+XRT")
XrtPaths == afterglow_directory_structure(Now, GRB, UseDefaultDirectory, "flux", "xrt")
PromptPaths(bin_size) == prompt_directory_structure(Now, GRB, UseDefaultDirectory, bin_size)
OpenPaths(transient_type) ==
  transient_directory_structure(Transient, UseDefaultDirectory, transient_type)
MetaPath(transient_type) == OpenPaths(transient_type).dir \o <<"metadata.csv">>

AfterglowPayloads(data_mode) ==
  IF data_mode = "flux" THEN FluxPayloads ELSE FluxDensityPayloads

\* the instrument the calls of a pipeline pass to afterglow_directory_structure
Instruments == {"BAT+XRT", "xrt"}
InstrumentOf(pl) == IF pl = "xrt" THEN "xrt" ELSE "BAT+XRT"

AfterglowDirectory ==
  /\ pipeline \in {"afterglow", "xrt"}
  /\ \E m \in {"flux", "flux_density"} :
       LET d == afterglow_directory_structure(Now, GRB, UseDefaultDirectory, m,
                                              InstrumentOf(pipeline))
       IN Invoke("afterglow_directory_structure", m,
                 Return(d.w, TupleVal(<<d.dir, d.raw, d.full>>)))

TransientDirectory ==
  /\ pipeline = "open"
  /\ \E t \in TransientTypes :
       LET d == transient_directory_structure(Transient, UseDefaultDirectory, t)
       IN Invoke("transient_directory_structure", t,
                 Return(Now, TupleVal(<<d.dir, d.raw, d.full>>)))

GetAfterglow ==
  /\ pipeline = "afterglow"
  /\ \E m \in DataModes : \E env \in SessionCases(AfterglowPayloads(m)) :
       Invoke("get_afterglow_data_from_swift", m,
              get_afterglow_data_from_swift(Now, GRB, m, UseDefaultDirectory, env))

CollectSwift ==
  /\ pipeline = "afterglow"
  /\ \E m \in DataModes : \E env \in SessionCases(AfterglowPayloads(m)) :
       Invoke("collect_swift_data", m,
              collect_swift_data(Now, GRB, UseDefaultDirectory, m, env))

SortSwift ==
  /\ pipeline = "afterglow"
  /\ \E m \in {"flux", "flux_density"}, io \in {"ok", "unreadable"} :
       Invoke("sort_swift_data", m,
              sort_swift_data(Now, AfterglowPaths(m).raw, AfterglowPaths(m).full, m, io))

GetXrt ==
  /\ pipeline = "xrt"
  /\ \E env \in DirectCases(XrtPayloads, {NoText}) :
       /\ env.dl # "meta"
       /\ Invoke("get_xrt_data_from_swift", "flux",
                 get_xrt_data_from_swift(Now, GRB, "flux", UseDefaultDirectory,
                   [env EXCEPT !.sfail = IF env.dl = "raw" THEN "retrieve" ELSE "none"]))

\* process_xrt_data(rawfile) on the raw XRT file in storage
ProcessXrt ==
  /\ pipeline = "xrt"
  /\ IsFile(Now, XrtPaths.raw)
  /\ LET p == process_xrt_data(fs[XrtPaths.raw])
     IN Invoke("process_xrt_data", "flux",
               IF p.exc = "none" THEN Return(Now, FrameVal(p.df)) ELSE Raise(Now, p.exc))

PromptDirectory ==
  /\ pipeline = "prompt"
  /\ \E b \in BinSizeInputs :
       LET d == prompt_directory_structure(Now, GRB, UseDefaultDirectory, b)
       IN Invoke("prompt_directory_structure", b,
                 IF d.exc = "none"
                 THEN Return(d.w, TupleVal(<<d.dir, d.raw, d.full>>))
                 ELSE Raise(d.w, d.exc))

GetPrompt ==
  /\ pipeline = "prompt"
  /\ \E b \in BinSizes, env \in SessionCases(PromptPayloads) :
       /\ env.resp = "data" /\ env.controls
       /\ Invoke("get_prompt_data_from_swift", b,
                 get_prompt_data_from_swift(Now, GRB, b, UseDefaultDirectory, env))

CollectPrompt ==
  /\ pipeline = "prompt"
  /\ \E b \in BinSizes, env \in SessionCases(PromptPayloads) :
       /\ env.resp = "data" /\ env.controls
       /\ Invoke("collect_swift_prompt_data", b,
                 collect_swift_prompt_data(Now, GRB, UseDefaultDirectory, b, env))

SortPrompt ==
  /\ pipeline = "prompt"
  /\ Invoke("sort_swift_prompt_data", "2ms",
            sort_swift_prompt_data(Now, GRB, UseDefaultDirectory))

GetOpen ==
  /\ pipeline = "open"
  /\ \E t \in TransientTypes, env \in DirectCases(OpenPayloads, MetaPayloads) :
       Invoke("get_open_transient_catalog_data", t,
              get_open_transient_catalog_data(Now, Transient, t, UseDefaultDirectory, env))

CollectOpen ==
  /\ pipeline = "open"
  /\ \E t \in TransientTypes, env \in DirectCases(OpenPayloads, MetaPayloads) :
       Invoke("collect_open_catalog_data", t,
              collect_open_catalog_data(Now, Transient, UseDefaultDirectory, t, env))

SortOpen ==
  /\ pipeline = "open"
  /\ \E t \in TransientTypes :
       Invoke("sort_open_access_data", t,
              sort_open_access_data(Now, Transient, UseDefaultDirectory, t))

FixT0 ==
  /\ pipeline = "open"
  /\ \E t \in TransientTypes, e \in Epochs :
       InvokeWith("fix_t0_of_transient", t, e,
                  fix_t0_of_transient(Now, e, Transient, t, UseDefaultDirectory))

\* the operator deletes a file by hand
RemoveFile ==
  \E p \in DOMAIN fs :
    /\ fs' = [q \in DOMAIN fs \ {p} |-> fs[q]]
    /\ dirs' = dirs
    /\ last' = [op |-> "remove", arg |-> "", pre |-> DOMAIN fs, exc |-> "none",
                ret |-> NoneVal, net |-> 0, sess |-> 0, quit |-> 0, writes |-> {},
                log |-> {}, seen |-> "none", fault |-> "none", val |-> 0, nodir |-> {}]
    /\ UNCHANGED <<pipeline, scan, race>>

Next ==
  \/ AfterglowDirectory
  \/ TransientDirectory
  \/ GetAfterglow
  \/ CollectSwift
  \/ SortSwift
  \/ GetXrt
  \/ ProcessXrt
  \/ PromptDirectory
  \/ GetPrompt
  \/ CollectPrompt
  \/ SortPrompt
  \/ GetOpen
  \/ CollectOpen
  \/ SortOpen
  \/ FixT0
  \/ RemoveFile

Spec == Init /\ [][Next]_vars

(***************************************************************************)
(* The scan of sort_integrated_flux_data, line by line, over every raw     *)
(* file of up to MaxScanLines lines.                                       *)
(***************************************************************************)
MaxScanLines == 3

ScanAlphabet ==
  {Header("batSNR4flux"), Header("xrtwtflux"), Header("xrtpcflux"), Header("other"),
   Data(1, TRUE), Junk(2), TextLine(<<Piece("x", "batSNR4flux", 3)>>, TRUE)}

ScanFiles == UNION {[1..n -> ScanAlphabet] : n \in 1..MaxScanLines}

InitScan ==
  /\ fs = NoFiles
  /\ dirs = {}
  /\ pipeline = "afterglow"
  /\ last = [op |-> "none", arg |-> "", pre |-> {}, exc |-> "none", ret |-> NoneVal,
             net |-> 0, sess |-> 0, quit |-> 0, writes |-> {}, log |-> {},
             seen |-> "none", fault |-> "none", val |-> 0, nodir |-> {}]
  /\ \E f \in ScanFiles : scan = [lines |-> f, pos |-> 0, st |-> ScanInit]
  /\ race = NoRace

\* the loop takes the next line
ScanLine ==
  /\ scan.pos < Len(scan.lines)
  /\ scan' = [scan EXCEPT !.pos = @ + 1,
                          !.st = ScanStep(@, scan.lines[scan.pos + 1])]
  /\ UNCHANGED <<fs, dirs, last, pipeline, race>>

NextScan == ScanLine

SpecScan == InitScan /\ [][NextScan]_vars

(***************************************************************************)
(* Two processes run the fetch phase of one transient at the same time.    *)
(* A fetch tests os.path.isfile(rawfile) and, when the file is absent,     *)
(* calls urllib.request.urlretrieve, which opens the raw file for writing  *)
(* (truncating it) and copies the response block by block through its own  *)
(* file position.  Nothing in the module serialises the two.               *)
(***************************************************************************)
RaceBlocks == 2

Procs == {1, 2}

\* the responses the two requests may receive, as sequences of blocks
RacePayloads ==
  {[b \in 1..RaceBlocks |-> <<"a", b>>], [b \in 1..RaceBlocks |-> <<"b", b>>]}

Hole == <<"zero", 0>>

NoCall ==
  [op |-> "none", arg |-> "", pre |-> {}, exc |-> "none", ret |-> NoneVal,
   net |-> 0, sess |-> 0, quit |-> 0, writes |-> {}, log |-> {},
   seen |-> "none", fault |-> "none", val |-> 0, nodir |-> {}]

InitRace ==
  /\ fs = NoFiles
  /\ dirs = {}
  /\ pipeline = "open"
  /\ last = NoCall
  /\ scan = NoScan
  /\ \E pl \in [Procs -> RacePayloads] :
       race = [present |-> FALSE, file |-> <<>>, writer |-> 0,
               proc |-> [i \in Procs |-> [pc |-> "check", payload |-> pl[i], pos |-> 0,
                                          saw |-> "absent"]]]

\* os.path.isfile(rawfile): return at once when the file is there
RaceCheck(i) ==
  /\ race.proc[i].pc = "check"
  /\ race' = [race EXCEPT
                !.proc[i].saw = IF race.present THEN "present" ELSE "absent",
                !.proc[i].pc = IF race.present THEN "done" ELSE "open"]

\* urlretrieve: open(filename, 'wb')
RaceOpen(i) ==
  /\ race.proc[i].pc = "open"
  /\ race' = [race EXCEPT !.present = TRUE, !.file = <<>>, !.writer = i,
                          !.proc[i].pc = "write", !.proc[i].pos = 0]

\* the bytes of a file after block blk is written at position pos
WriteAt(file, pos, blk) ==
  [k \in 1..(IF Len(file) > pos THEN Len(file) ELSE pos + 1) |->
     IF k = pos + 1 THEN blk
     ELSE IF k <= Len(file) THEN file[k] ELSE Hole]

\* urlretrieve: tfp.write(block)
RaceWrite(i) ==
  /\ race.proc[i].pc = "write"
  /\ race.proc[i].pos < Len(race.proc[i].payload)
  /\ race' = [race EXCEPT
                !.file = WriteAt(@, race.proc[i].pos,
                                 race.proc[i].payload[race.proc[i].pos + 1]),
                !.writer = i,
                !.proc[i].pos = @ + 1]

\* urlretrieve returns after the last block
RaceClose(i) ==
  /\ race.proc[i].pc = "write"
  /\ race.proc[i].pos = Len(race.proc[i].payload)
  /\ race' = [race EXCEPT !.proc[i].pc = "done"]

NextRace ==
  \/ \E i \in Procs : RaceCheck(i) /\ UNCHANGED <<fs, dirs, last, pipeline, scan>>
  \/ \E i \in Procs : RaceOpen(i) /\ UNCHANGED <<fs, dirs, last, pipeline, scan>>
  \/ \E i \in Procs : RaceWrite(i) /\ UNCHANGED <<fs, dirs, last, pipeline, scan>>
  \/ \E i \in Procs : RaceClose(i) /\ UNCHANGED <<fs, dirs, last, pipeline, scan>>

SpecRace == InitRace /\ [][NextRace]_vars

(***************************************************************************)
(* Properties                                                              *)
(***************************************************************************)
AgRaw(m) == AfterglowPaths(m).raw
AgFull(m) == AfterglowPaths(m).full
PromptRaw(b) == PromptPaths(b).raw
PromptFull(b) == PromptPaths(b).full
OpenRaw(t) == OpenPaths(t).raw
OpenFull(t) == OpenPaths(t).full

EntryPoints ==
  {"get_afterglow_data_from_swift", "get_xrt_data_from_swift",
   "get_prompt_data_from_swift", "get_open_transient_catalog_data"}

\* the processed file of the entry point last called
ProcessedOfLast ==
  IF last.op = "get_afterglow_data_from_swift" THEN AgFull(last.arg)
  ELSE IF last.op = "get_xrt_data_from_swift" THEN XrtPaths.full
  ELSE IF last.op = "get_prompt_data_from_swift" THEN PromptFull(last.arg)
  ELSE OpenFull(last.arg)

\* C1: get_afterglow_data_from_swift in data_mode 'flux', called when the raw
\* file and the processed file both exist, makes no network or browser call,
\* writes no file and returns without raising.
C1_CachedAfterglowReturnsNormally ==
  (/\ last.op = "get_afterglow_data_from_swift"
   /\ last.arg = "flux"
   /\ {AgRaw("flux"), AgFull("flux")} \subseteq last.pre)
  => (last.net = 0 /\ last.sess = 0 /\ last.writes = {} /\ last.exc = "none")

\* C2: get_xrt_data_from_swift, called when the processed XRT file exists,
\* makes no network call and rewrites neither the raw nor the processed file.
C2_CachedXrtNoNetwork ==
  (last.op = "get_xrt_data_from_swift" /\ XrtPaths.full \in last.pre)
  => (last.net = 0 /\ last.writes \cap {XrtPaths.raw, XrtPaths.full} = {})

\* C3: get_open_transient_catalog_data, called when the processed file exists,
\* makes no network call whether or not the raw file exists, and returns the
\* table stored in the processed file.
C3_CachedOpenCatalogNoNetwork ==
  (last.op = "get_open_transient_catalog_data" /\ OpenFull(last.arg) \in last.pre)
  => (/\ last.net = 0
      /\ last.exc = "none"
      /\ OpenFull(last.arg) \in DOMAIN fs
      /\ last.ret = FrameVal(ReadCsv(fs[OpenFull(last.arg)], ",")))

\* C4: with the default bin_size, the invocation of get_prompt_data_from_swift
\* that follows the one that wrote the processed file makes no network call and
\* returns the same Dataset (columns, rows, values) as that one returned.
C4_PromptSecondCallSameDataset ==
  [][(/\ last.op = "get_prompt_data_from_swift"
      /\ last.arg = "2ms"
      /\ last.exc = "none"
      /\ PromptFull("2ms") \in last.writes
      /\ last'.op = "get_prompt_data_from_swift"
      /\ last'.arg = "2ms")
     => (/\ last'.net = 0
         /\ last'.sess = 0
         /\ last'.exc = "none"
         /\ last'.ret = last.ret)]_vars

\* C5: for data_mode flux and flux_density, whenever
\* get_afterglow_data_from_swift returns normally the processed file exists.
C5_AfterglowReturnImpliesProcessed ==
  (/\ last.op = "get_afterglow_data_from_swift"
   /\ last.arg \in {"flux", "flux_density"}
   /\ last.exc = "none")
  => AgFull(last.arg) \in DOMAIN fs

\* C6: each of the four entry points, when it returns normally, returns the
\* Dataset whose rows are those of the processed file, never None.
C6_EntryPointsReturnDataset ==
  (last.op \in EntryPoints /\ last.exc = "none")
  => (/\ last.ret.kind = "DataFrame"
      /\ ProcessedOfLast \in DOMAIN fs
      /\ last.ret.rows = ReadCsv(fs[ProcessedOfLast], ",").rows)

\* C7: in every session-driven fetch, an exception raised while selecting
\* options, clicking, waiting, reading the location or retrieving the payload
\* is caught: the function returns without raising and leaves no raw file.
C7_SessionFailureSwallowed ==
  (/\ last.op \in {"collect_swift_data", "collect_swift_prompt_data"}
   /\ last.fault \in {"select", "click", "location", "retrieve"})
  => (last.exc = "none" /\ last.writes = {})

SortPhases == {"sort_swift_data", "sort_swift_prompt_data", "sort_open_access_data"}

RawOfLastSort ==
  IF last.op = "sort_swift_data" THEN AgRaw(last.arg)
  ELSE IF last.op = "sort_swift_prompt_data" THEN PromptRaw(last.arg)
  ELSE OpenRaw(last.arg)

FullOfLastSort ==
  IF last.op = "sort_swift_data" THEN AgFull(last.arg)
  ELSE IF last.op = "sort_swift_prompt_data" THEN PromptFull(last.arg)
  ELSE OpenFull(last.arg)

\* C8: a processing phase called with neither the processed nor the raw file
\* raises DataExists and creates no processed file; called with the processed
\* file present it never raises DataExists, with or without the raw file.
C8_DataExistsOnlyWhenBothAbsent ==
  last.op \in SortPhases =>
    /\ (FullOfLastSort \notin last.pre /\ RawOfLastSort \notin last.pre)
         => (/\ last.exc = "DataExists"
             /\ last.writes = {}
             /\ FullOfLastSort \notin DOMAIN fs)
    /\ FullOfLastSort \in last.pre => last.exc # "DataExists"

C8_Witness ==
  /\ last.op = "sort_swift_data"
  /\ AgFull(last.arg) \in last.pre
  /\ AgRaw(last.arg) \notin last.pre
  /\ last.exc = "none"

DirectFetches ==
  {"collect_swift_data", "get_xrt_data_from_swift", "collect_open_catalog_data"}

RawOfLastFetch ==
  IF last.op = "collect_swift_data" THEN AgRaw(last.arg)
  ELSE IF last.op = "get_xrt_data_from_swift" THEN XrtPaths.raw
  ELSE OpenRaw(last.arg)

\* C9: a direct-URL fetch that finds the raw file absent and the no-data marker
\* in the response raises WebsiteExist, opens no browser session and writes no
\* file.
C9_MarkerRaisesWebsiteExist ==
  (/\ last.op \in DirectFetches
   /\ RawOfLastFetch \notin last.pre
   /\ last.seen = "marker")
  => (last.exc = "WebsiteExist" /\ last.sess = 0 /\ last.writes = {})

C9_Witness ==
  /\ last.op = "collect_open_catalog_data"
  /\ OpenRaw(last.arg) \notin last.pre
  /\ last.seen = "marker"
  /\ last.exc = "WebsiteExist"

SectionLabels == {"batSNR4flux", "xrtwtflux", "xrtpcflux"}

RECURSIVE SectionAt(_, _)
\* the label of the latest '!' line at or before line i, "none" without one
SectionAt(lines, i) ==
  IF i = 0 THEN "none"
  ELSE IF FirstChar(lines[i]) = "!"
  THEN IF LabelAt2(lines[i]) \in SectionLabels THEN LabelAt2(lines[i]) ELSE "none"
  ELSE SectionAt(lines, i - 1)

\* the digit-leading lines of a section, in input order
ValidTexts(lines, label) ==
  LET rows == SelectRows(lines,
                {i \in 1..Len(lines) :
                   SectionAt(lines, i) = label /\ FirstChar(lines[i]) \in Digits}, 1)
  IN [i \in 1..Len(rows) |-> rows[i].txt]

ExpectedFluxLines(lines) ==
  <<BatHeader>> \o ValidTexts(lines, "batSNR4flux") \o << <<>> >> \o
  <<XrtwtHeader>> \o ValidTexts(lines, "xrtwtflux") \o << <<>> >> \o
  <<XrtpcHeader>> \o ValidTexts(lines, "xrtpcflux")

LinesOf(text) == [i \in 1..Len(text) |-> text[i].txt]

\* C10: the file sort_integrated_flux_data writes is, line by line, the BAT
\* header, the digit-leading BAT lines, a blank line, the XRT-WT header, the
\* digit-leading XRT-WT lines, a blank line, the XRT-PC header and the
\* digit-leading XRT-PC lines, and nothing else.
C10_FluxOutputLayout ==
  (/\ last.op \in {"sort_swift_data", "get_afterglow_data_from_swift"}
   /\ last.arg = "flux"
   /\ AgFull("flux") \in last.writes
   /\ AgRaw("flux") \in DOMAIN fs)
  => LinesOf(fs[AgFull("flux")]) = ExpectedFluxLines(fs[AgRaw("flux")])

\* the lines among the first k that lie in the section of a label, in order
SectionLines(lines, k, label) ==
  SelectRows(SubSeq(lines, 1, k), {i \in 1..k : SectionAt(lines, i) = label}, 1)

FlagOf(lines, k, label) == IF SectionAt(lines, k) = label THEN 1 ELSE 0

\* C11: during the scan at most one section is active; a line is taken into
\* section S exactly when the latest '!' line at or before it carries S's
\* label; lines before the first '!' line and lines after a '!' line with none
\* of the three labels go to no section.
C11_OneActiveSection ==
  /\ scan.st.batflag + scan.st.xrtwtflag + scan.st.xrtpcflag <= 1
  /\ scan.st.batflag = FlagOf(scan.lines, scan.pos, "batSNR4flux")
  /\ scan.st.xrtwtflag = FlagOf(scan.lines, scan.pos, "xrtwtflux")
  /\ scan.st.xrtpcflag = FlagOf(scan.lines, scan.pos, "xrtpcflux")
  /\ scan.st.bat = SectionLines(scan.lines, scan.pos, "batSNR4flux")
  /\ scan.st.xrtwt = SectionLines(scan.lines, scan.pos, "xrtwtflux")
  /\ scan.st.xrtpc = SectionLines(scan.lines, scan.pos, "xrtpcflux")

\* a scan that filled a section, met a reset line and dropped the line after it
C11_Witness ==
  /\ scan.pos = 3
  /\ scan.lines[1] = Header("xrtpcflux")
  /\ scan.lines[2] = Header("other")
  /\ scan.lines[3] = Data(1, TRUE)
  /\ scan.st.xrtpc = <<Header("xrtpcflux")>>

\* the rows of a raw XRT file whose fifth value is not 0, in their order
KeptXrtRows(rows) ==
  SelectRows([i \in 1..Len(rows) |-> NumCells(rows[i])],
             {i \in 1..Len(rows) : rows[i][5] # 0}, 1)

\* C12: process_xrt_data returns exactly the rows of its input whose fifth
\* value (fluxpos) is not 0, in the input's order, the six values unchanged.
C12_XrtRowsFiltered ==
  last.op = "process_xrt_data" =>
    \A rows \in XrtRowSets :
      fs[XrtPaths.raw] = XrtFile(rows) =>
        /\ last.exc = "none"
        /\ last.ret = FrameVal([cols |-> XrtColumns, rows |-> KeptXrtRows(rows)])

(***************************************************************************)
(* Open-catalog normalisation and the epoch                                *)
(***************************************************************************)
OpenOps == {"sort_open_access_data", "get_open_transient_catalog_data"}

\* the last call built the processed file of its transient type from the raw file
Normalized ==
  /\ last.op \in OpenOps
  /\ last.exc = "none"
  /\ OpenFull(last.arg) \notin last.pre

Processed(t) == ReadCsv(fs[OpenFull(t)], ",")
TimeOf(df, i) == df.rows[i][Col(df, "time")][1].n
RelTime(df, i) == df.rows[i][Col(df, "time (days)")][1].n
\* the time of merger the metadata file of a transient type holds
MergerTime(t) ==
  LET m == ReadCsv(fs[MetaPath(t)], ",") IN m.rows[1][Col(m, "timeofmerger")]

FixWarning == "run fix_t0_of_transient"

\* C13: a kilonova whose metadata holds no time of merger and for which no
\* associated GRB is found: sort_open_access_data emits the warning that asks
\* for fix_t0_of_transient and completes without raising.
C13_KilonovaWithoutEpochCompletes ==
  ( /\ last.op = "sort_open_access_data"
    /\ last.arg = "kilonova"
    /\ OpenFull("kilonova") \notin last.pre
    /\ OpenRaw("kilonova") \in last.pre
    /\ MetaPath("kilonova") \in last.pre
    /\ IsNan(MergerTime("kilonova")) )
  => /\ last.exc = "none"
     /\ FixWarning \in last.log

\* C14: no time of merger and a type other than kilonova: the warning is
\* emitted, the first row of the persisted table has relative time 0 and every
\* row's relative time is its time minus the first row's time.
C14_FirstObservationIsEpoch ==
  (Normalized /\ last.arg # "kilonova" /\ IsNan(MergerTime(last.arg))) =>
    LET df == Processed(last.arg) IN
      /\ FixWarning \in last.log
      /\ Len(df.rows) >= 1
      /\ RelTime(df, 1) = 0
      /\ \A i \in 1..Len(df.rows) : RelTime(df, i) = TimeOf(df, i) - TimeOf(df, 1)

C14_Witness ==
  /\ Normalized
  /\ last.op = "sort_open_access_data"
  /\ last.arg = "supernova"
  /\ IsNan(MergerTime("supernova"))
  /\ Len(Processed("supernova").rows) = 2
  /\ TimeOf(Processed("supernova"), 2) = 9

\* C15: the metadata holds a time of merger: for every transient type no
\* fallback warning is emitted and every row's relative time is its time minus
\* the metadata's value.
C15_MetadataEpochUsed ==
  (Normalized /\ IsNumber(MergerTime(last.arg))) =>
    LET df == Processed(last.arg) IN
      /\ FixWarning \notin last.log
      /\ "no timeofevent in metadata" \notin last.log
      /\ \A i \in 1..Len(df.rows) :
           RelTime(df, i) = TimeOf(df, i) - MergerTime(last.arg)[1].n

C15_Witness ==
  /\ Normalized
  /\ last.arg = "kilonova"
  /\ IsNumber(MergerTime("kilonova"))
  /\ Len(Processed("kilonova").rows) = 2
  /\ RelTime(Processed("kilonova"), 1) = 2

\* the frame a csv text reads as
FrameOf(text) == ReadCsv(text, ",")

\* two frames with the same columns and rows that agree outside 'time (days)'
SameOutsideRelTime(a, b) ==
  /\ a.cols = b.cols
  /\ Len(a.rows) = Len(b.rows)
  /\ \A i \in 1..Len(a.rows) :
       /\ Len(a.rows[i]) = Len(b.rows[i])
       /\ \A j \in 1..Len(a.rows[i]) :
            j # Col(a, "time (days)") => a.rows[i][j] = b.rows[i][j]

C17_CachedNormalizeIsNoOp ==
  [][(last'.op = "sort_open_access_data" /\ OpenFull(last'.arg) \in DOMAIN fs) =>
       /\ fs' = fs
       /\ last'.writes = {}
       /\ last'.exc = "none"
       /\ last'.ret = FrameVal(FrameOf(fs[OpenFull(last'.arg)]))]_vars

\* the raw file and the metadata are gone, the epoch was set to 4 by
\* fix_t0_of_transient, and a later sort_open_access_data returned that table
C17_Witness ==
  /\ last.op = "sort_open_access_data"
  /\ last.arg = "supernova"
  /\ last.exc = "none"
  /\ OpenFull("supernova") \in last.pre
  /\ OpenRaw("supernova") \notin last.pre
  /\ MetaPath("supernova") \notin last.pre
  /\ last.ret.kind = "DataFrame"
  /\ Len(last.ret.rows) = 2
  /\ RelTime(last.ret, 1) = 1

\* a raw row that the filters keep: system 'AB', band neither 'C' nor 'W'
Qualifies(raw, i) ==
  /\ raw.rows[i][Col(raw, "system")] = Cell(Str("AB"))
  /\ raw.rows[i][Col(raw, "band")] \notin {Cell(Str("C")), Cell(Str("W"))}

\* C18: the table persisted by sort_open_access_data holds exactly the raw
\* rows with system 'AB' and a band other than 'C' and 'W', in raw order.
C18_PersistedRowsAreFilteredRaw ==
  Normalized =>
    LET raw == FrameOf(fs[OpenRaw(last.arg)])
        out == Processed(last.arg)
        n == Len(raw.cols)
    IN [i \in 1..Len(out.rows) |-> SubSeq(out.rows[i], 1, n)]
         = SelectRows(raw.rows, {i \in 1..Len(raw.rows) : Qualifies(raw, i)}, 1)

C18_Witness ==
  /\ Normalized
  /\ last.op = "sort_open_access_data"
  /\ Len(FrameOf(fs[OpenRaw(last.arg)]).rows) = 5
  /\ Len(Processed(last.arg).rows) = 2

\* C19: prompt_directory_structure raises ValueError for a bin_size outside
\* '1s', '2ms', '8ms', '16ms', '64ms', '256ms' and returns the directory and the
\* two file paths, without raising, for each of the six.
C19_BinSizeValidated ==
  last.op = "prompt_directory_structure" =>
    IF last.arg \in {"1s", "2ms", "8ms", "16ms", "64ms", "256ms"}
    THEN /\ last.exc = "none"
         /\ last.ret = TupleVal(<<PromptDir(GRB, UseDefaultDirectory),
                                  PromptDir(GRB, UseDefaultDirectory)
                                    \o <<last.arg, "_lc_ascii.dat">>,
                                  PromptDir(GRB, UseDefaultDirectory)
                                    \o <<last.arg, "_lc.csv">> >>)
    ELSE /\ last.exc = "ValueError"
         /\ last.ret = NoneVal

C19_Witness ==
  /\ last.op = "prompt_directory_structure"
  /\ last.arg = "256ms"
  /\ last.exc = "none"
  /\ PromptDir(GRB, UseDefaultDirectory) \in dirs

\* C20: for a data_mode other than 'flux' and 'flux_density', collect_swift_data
\* and get_afterglow_data_from_swift raise ValueError before any request,
\* download or browser session.
C20_DataModeRejectedBeforeNetwork ==
  ( /\ last.op \in {"collect_swift_data", "get_afterglow_data_from_swift"}
    /\ last.arg \notin {"flux", "flux_density"} )
  => /\ last.exc = "ValueError"
     /\ last.net = 0
     /\ last.sess = 0
     /\ last.seen = "none"
     /\ last.fault = "none"
     /\ last.writes = {}

C20_Witness ==
  /\ last.op = "get_afterglow_data_from_swift"
  /\ last.arg = "luminosity"
  /\ last.exc = "ValueError"
  /\ last.net = 0
  /\ last.sess = 0

(***************************************************************************)
(* Path resolvers                                                          *)
(***************************************************************************)
\* a world in which no directory and no file exists
Fresh == World(NoFiles, {})

Triple(d) == TupleVal(<<d.dir, d.raw, d.full>>)

C22_LastWriterWins ==
  ( /\ \A i \in DOMAIN race.proc : race.proc[i].pc = "done" /\ race.proc[i].saw = "absent"
    /\ race.writer \in DOMAIN race.proc )
  => race.file = race.proc[race.writer].payload

\* C23: every write of a raw, metadata or processed file goes to a directory
\* that was created earlier in the same call or that holds a file the call
\* found there; no file lies outside the directories that exist.
C23_DirectoryBeforeWrite ==
  /\ last.nodir = {}
  /\ \A p \in DOMAIN fs : InDir(Now, p)

\* fix_t0_of_transient, which creates no directory itself, rewrote the
\* processed file
C23_Witness ==
  /\ last.op = "fix_t0_of_transient"
  /\ last.exc = "none"
  /\ last.writes = {OpenFull(last.arg)}
  /\ MetaPath(last.arg) \in DOMAIN fs

(***************************************************************************)
(* Failed fetches                                                          *)
(***************************************************************************)
\* the steps of a browser session whose exception the fetch catches
CaughtSteps == {"select", "click", "location", "retrieve"}

\* call l was an entry point whose session-driven fetch failed at a caught
\* step, with no processed file of its own on disk
FetchFailed(l) ==
  \/ /\ l.op = "get_afterglow_data_from_swift"
     /\ l.arg = "flux_density"
     /\ l.fault \in CaughtSteps
     /\ AgFull("flux_density") \notin l.pre
  \/ /\ l.op = "get_prompt_data_from_swift"
     /\ l.arg \in SWIFT_PROMPT_BIN_SIZES
     /\ l.fault \in CaughtSteps
     /\ PromptFull(l.arg) \notin l.pre

RawOfEntry(l) ==
  IF l.op = "get_afterglow_data_from_swift" THEN AgRaw(l.arg) ELSE PromptRaw(l.arg)

\* C24: when the session of get_afterglow_data_from_swift ('flux_density') or
\* get_prompt_data_from_swift fails, the raw file stays absent, the processing
\* phase of the same call raises DataExists after a single fetch attempt, and
\* the next call of the entry point goes to the network again.
C24_FailedFetchRetriedByReinvocation ==
  [][ /\ FetchFailed(last') =>
           /\ last'.exc = "DataExists"
           /\ RawOfEntry(last') \notin DOMAIN fs'
           /\ last'.sess = 1
      /\ (FetchFailed(last) /\ last'.op = last.op /\ last'.arg = last.arg) =>
           (last'.net >= 1 \/ last'.sess = 1 \/ last'.fault = "driver") ]_vars

\* C25: in the open-catalog pipeline a fetch that leaves the raw file on disk
\* leaves the metadata file there too, so a raw file never waits for metadata
\* that a later call would have to repair.
C25_RawImpliesMetadata ==
  [][( /\ last'.op \in {"collect_open_catalog_data", "get_open_transient_catalog_data"}
       /\ OpenRaw(last'.arg) \notin DOMAIN fs
       /\ OpenRaw(last'.arg) \in DOMAIN fs' )
     => MetaPath(last'.arg) \in DOMAIN fs']_vars

\* C26: get_prompt_data_from_swift(grb, bin_size = b) reads, checks and writes
\* only the raw and processed files derived from b, and its processing phase
\* finds the raw file of b that the fetch phase left on disk.
C26_PromptPhasesShareBinSize ==
  (last.op = "get_prompt_data_from_swift" /\ last.arg \in SWIFT_PROMPT_BIN_SIZES) =>
    /\ last.writes \subseteq {PromptRaw(last.arg), PromptFull(last.arg)}
    /\ PromptRaw(last.arg) \in DOMAIN fs => last.exc # "DataExists"
    /\ last.exc = "none" => PromptFull(last.arg) \in DOMAIN fs

\* C27: every browser session a session-driven fetch opens is closed by the
\* time the function returns or raises, on the success path and on every
\* failure path.
C27_SessionsClosed ==
  last.op \in {"collect_swift_data", "get_afterglow_data_from_swift",
               "collect_swift_prompt_data", "get_prompt_data_from_swift"}
  => last.quit = last.sess

\* C28: a call that rejects its configuration (prompt_directory_structure a
\* bin_size, collect_swift_data a data_mode, collect_open_catalog_data a
\* transient_type outside kilonova, supernova, tidal_disruption_event) raises
\* on every call, creates no directory and no file and makes no network call.
C28_RejectionLeavesNoTrace ==
  [][( \/ /\ last'.op = "prompt_directory_structure"
          /\ last'.arg \notin {"1s", "2ms", "8ms", "16ms", "64ms", "256ms"}
       \/ /\ last'.op = "collect_swift_data"
          /\ last'.arg \notin {"flux", "flux_density"}
       \/ /\ last'.op = "collect_open_catalog_data"
          /\ last'.arg \notin {"kilonova", "supernova", "tidal_disruption_event"} )
     => /\ last'.exc \in {"ValueError", "WebsiteExist"}
        /\ fs' = fs
        /\ dirs' = dirs
        /\ last'.net = 0
        /\ last'.sess = 0]_vars

HasLine(text, txt) == \E i \in 1..Len(text) : text[i].txt = txt /\ text[i].nl

\* C29: when the raw file cannot be opened, the processing of 'flux' data logs
\* a warning, raises nothing and writes no processed file; a processed file
\* on disk always holds the three section headers.
C29_UnreadableRawLeavesNoFile ==
  /\ (last.op = "sort_swift_data" /\ last.arg = "flux" /\ last.fault = "open") =>
       /\ last.exc = "none"
       /\ "error opening the file" \in last.log
       /\ last.writes = {}
       /\ AgFull("flux") \notin DOMAIN fs
  /\ (pipeline = "afterglow" /\ AgFull("flux") \in DOMAIN fs) =>
       /\ HasLine(fs[AgFull("flux")], BatHeader)
       /\ HasLine(fs[AgFull("flux")], XrtwtHeader)
       /\ HasLine(fs[AgFull("flux")], XrtpcHeader)

C29_Witness ==
  /\ last.op = "sort_swift_data"
  /\ last.arg = "flux"
  /\ last.fault = "open"
  /\ AgRaw("flux") \in last.pre
  /\ AgFull("flux") \notin DOMAIN fs

====
